---------------------------- MODULE Spec2Model ----------------------------
(***************************************************************************)
(* vlcc: a telnet session with VLC's remote-control interface.             *)
(*                                                                         *)
(* main() of src/vlcc/vlcc.py runs three threads over two locks:           *)
(*   - the main thread enqueues the four start-up queries and then reads   *)
(*     the transport line by line, classifying every line as a status      *)
(*     change, a query return ("<name>: returned <n>") or a query response;*)
(*   - QuerierThread polls the query queue and writes its head to the      *)
(*     transport when ready_to_query is set;                               *)
(*   - TimeAdvancerThread advances the current time once per second while  *)
(*     the player is playing.                                              *)
(*                                                                         *)
(* Text is modelled character by character (a byte string is a sequence of *)
(* one-character strings), so that the regular expressions, strip(), int() *)
(* and replace() of the source are computed rather than assumed.           *)
(***************************************************************************)
EXTENDS Integers, Sequences, FiniteSets, TLC

(***************************************************************************)
(* String literals of the source, and the lines the transport may deliver. *)
(***************************************************************************)
\* 'status change: ( '
S_status_change_open ==
    <<"s", "t", "a", "t", "u", "s", " ", "c", "h", "a", "n", "g", "e", ":", " ", "(", " ">>
\* ' )'
S_status_change_close ==
    <<" ", ")">>
\* 'audio volume: '
S_audio_volume ==
    <<"a", "u", "d", "i", "o", " ", "v", "o", "l", "u", "m", "e", ":", " ">>
\* 'stop state: 0'
S_stop_state_0 ==
    <<"s", "t", "o", "p", " ", "s", "t", "a", "t", "e", ":", " ", "0">>
\* 'play state: 2'
S_play_state_2 ==
    <<"p", "l", "a", "y", " ", "s", "t", "a", "t", "e", ":", " ", "2">>
\* 'play state: 3'
S_play_state_3 ==
    <<"p", "l", "a", "y", " ", "s", "t", "a", "t", "e", ":", " ", "3">>
\* 'play state: 4'
S_play_state_4 ==
    <<"p", "l", "a", "y", " ", "s", "t", "a", "t", "e", ":", " ", "4">>
\* 'pause state: 3'
S_pause_state_3 ==
    <<"p", "a", "u", "s", "e", " ", "s", "t", "a", "t", "e", ":", " ", "3">>
\* 'pause state: 4'
S_pause_state_4 ==
    <<"p", "a", "u", "s", "e", " ", "s", "t", "a", "t", "e", ":", " ", "4">>
\* 'new input: file:///'
S_new_input_file ==
    <<"n", "e", "w", " ", "i", "n", "p", "u", "t", ":", " ", "f", "i", "l", "e", ":", "/", "/",
      "/">>
\* ': returned '
S_returned ==
    <<":", " ", "r", "e", "t", "u", "r", "n", "e", "d", " ">>
\* 'is_playing'
S_is_playing ==
    <<"i", "s", "_", "p", "l", "a", "y", "i", "n", "g">>
\* 'title'
S_title ==
    <<"t", "i", "t", "l", "e">>
\* 'get_time'
S_get_time ==
    <<"g", "e", "t", "_", "t", "i", "m", "e">>
\* 'get_length'
S_get_length ==
    <<"g", "e", "t", "_", "l", "e", "n", "g", "t", "h">>

\* 'status change: ( audio volume: -20 )'
L_volume_m20 ==
    <<"s", "t", "a", "t", "u", "s", " ", "c", "h", "a", "n", "g", "e", ":", " ", "(", " ", "a",
      "u", "d", "i", "o", " ", "v", "o", "l", "u", "m", "e", ":", " ", "-", "2", "0", " ", ")">>
\* 'status change: ( audio volume: 7 )'
L_volume_7 ==
    <<"s", "t", "a", "t", "u", "s", " ", "c", "h", "a", "n", "g", "e", ":", " ", "(", " ", "a",
      "u", "d", "i", "o", " ", "v", "o", "l", "u", "m", "e", ":", " ", "7", " ", ")">>
\* 'status change: ( stop state: 0 )'
L_stop_0 ==
    <<"s", "t", "a", "t", "u", "s", " ", "c", "h", "a", "n", "g", "e", ":", " ", "(", " ", "s",
      "t", "o", "p", " ", "s", "t", "a", "t", "e", ":", " ", "0", " ", ")">>
\* 'status change: ( play state: 2 )'
L_play_2 ==
    <<"s", "t", "a", "t", "u", "s", " ", "c", "h", "a", "n", "g", "e", ":", " ", "(", " ", "p",
      "l", "a", "y", " ", "s", "t", "a", "t", "e", ":", " ", "2", " ", ")">>
\* 'status change: ( play state: 3 ): Play'
L_play_3 ==
    <<"s", "t", "a", "t", "u", "s", " ", "c", "h", "a", "n", "g", "e", ":", " ", "(", " ", "p",
      "l", "a", "y", " ", "s", "t", "a", "t", "e", ":", " ", "3", " ", ")", ":", " ", "P", "l",
      "a", "y">>
\* 'status change: ( play state: 4 )'
L_play_4 ==
    <<"s", "t", "a", "t", "u", "s", " ", "c", "h", "a", "n", "g", "e", ":", " ", "(", " ", "p",
      "l", "a", "y", " ", "s", "t", "a", "t", "e", ":", " ", "4", " ", ")">>
\* 'status change: ( pause state: 3 )'
L_pause_3 ==
    <<"s", "t", "a", "t", "u", "s", " ", "c", "h", "a", "n", "g", "e", ":", " ", "(", " ", "p",
      "a", "u", "s", "e", " ", "s", "t", "a", "t", "e", ":", " ", "3", " ", ")">>
\* 'status change: ( pause state: 4 )'
L_pause_4 ==
    <<"s", "t", "a", "t", "u", "s", " ", "c", "h", "a", "n", "g", "e", ":", " ", "(", " ", "p",
      "a", "u", "s", "e", " ", "s", "t", "a", "t", "e", ":", " ", "4", " ", ")">>
\* 'status change: ( new input: file:///C:/Movies/a.mp4 )'
L_new_input_drive ==
    <<"s", "t", "a", "t", "u", "s", " ", "c", "h", "a", "n", "g", "e", ":", " ", "(", " ", "n",
      "e", "w", " ", "i", "n", "p", "u", "t", ":", " ", "f", "i", "l", "e", ":", "/", "/", "/",
      "C", ":", "/", "M", "o", "v", "i", "e", "s", "/", "a", ".", "m", "p", "4", " ", ")">>
\* 'status change: ( new input: file:///home/a.mp4 )'
L_new_input_posix ==
    <<"s", "t", "a", "t", "u", "s", " ", "c", "h", "a", "n", "g", "e", ":", " ", "(", " ", "n",
      "e", "w", " ", "i", "n", "p", "u", "t", ":", " ", "f", "i", "l", "e", ":", "/", "/", "/",
      "h", "o", "m", "e", "/", "a", ".", "m", "p", "4", " ", ")">>
\* 'status change: ( audio volume: x )'
L_unmatched_status ==
    <<"s", "t", "a", "t", "u", "s", " ", "c", "h", "a", "n", "g", "e", ":", " ", "(", " ", "a",
      "u", "d", "i", "o", " ", "v", "o", "l", "u", "m", "e", ":", " ", "x", " ", ")">>
\* 'title: returned 0 (no error)'
L_ack_title ==
    <<"t", "i", "t", "l", "e", ":", " ", "r", "e", "t", "u", "r", "n", "e", "d", " ", "0", " ",
      "(", "n", "o", " ", "e", "r", "r", "o", "r", ")">>
\* 'volume: returned 0 (no error)'
L_ack_volume ==
    <<"v", "o", "l", "u", "m", "e", ":", " ", "r", "e", "t", "u", "r", "n", "e", "d", " ", "0",
      " ", "(", "n", "o", " ", "e", "r", "r", "o", "r", ")">>
\* 'Movie.mp4'
L_movie ==
    <<"M", "o", "v", "i", "e", ".", "m", "p", "4">>
\* '0'
L_zero ==
    <<"0">>
\* '1'
L_one ==
    <<"1">>
\* '\r'
L_blank ==
    <<"\r">>

\* 'C:\Movies\a.mp4'
V_drive_source ==
    <<"C", ":", "\\", "M", "o", "v", "i", "e", "s", "\\", "a", ".", "m", "p", "4">>
\* 'home/a.mp4'
V_posix_path ==
    <<"h", "o", "m", "e", "/", "a", ".", "m", "p", "4">>

(***************************************************************************)
(* Character classes and string helpers (Python's str / re semantics).     *)
(***************************************************************************)
Digits == {"0", "1", "2", "3", "4", "5", "6", "7", "8", "9"}

UpperCase ==
    {"A", "B", "C", "D", "E", "F", "G", "H", "I", "J", "K", "L", "M",
     "N", "O", "P", "Q", "R", "S", "T", "U", "V", "W", "X", "Y", "Z"}

LowerCase ==
    {"a", "b", "c", "d", "e", "f", "g", "h", "i", "j", "k", "l", "m",
     "n", "o", "p", "q", "r", "s", "t", "u", "v", "w", "x", "y", "z"}

\* [a-zA-Z_-]
QueryNameChars == UpperCase \cup LowerCase \cup {"_", "-"}

\* \s, and what str.strip() removes
Whitespace == {" ", "\t", "\n", "\r"}

\* the value re.match() returns when the pattern does not match
None == [matched |-> FALSE, group1 |-> <<>>]

Match(g) == [matched |-> TRUE, group1 |-> g]

StartsWith(s, p) == Len(p) <= Len(s) /\ SubSeq(s, 1, Len(p)) = p

Drop(s, n) == SubSeq(s, n + 1, Len(s))

AllIn(s, cls) == \A i \in 1..Len(s) : s[i] \in cls

\* str.strip(): leading and trailing whitespace removed
Strip(s) ==
    LET keep == {i \in 1..Len(s) : s[i] \notin Whitespace}
        Min(S) == CHOOSE x \in S : \A y \in S : x <= y
        Max(S) == CHOOSE x \in S : \A y \in S : x >= y
    IN  IF keep = {} THEN <<>> ELSE SubSeq(s, Min(keep), Max(keep))

DigitValue(c) ==
    CASE c = "0" -> 0 [] c = "1" -> 1 [] c = "2" -> 2 [] c = "3" -> 3 [] c = "4" -> 4
      [] c = "5" -> 5 [] c = "6" -> 6 [] c = "7" -> 7 [] c = "8" -> 8 [] c = "9" -> 9

RECURSIVE DecimalValue(_)
DecimalValue(s) ==
    IF s = <<>> THEN 0
    ELSE 10 * DecimalValue(SubSeq(s, 1, Len(s) - 1)) + DigitValue(s[Len(s)])

\* the strings int() accepts: an optional sign and at least one digit (the
\* argument is already stripped; digit separators are not modelled)
IsIntLiteral(s) ==
    LET body == IF s # <<>> /\ s[1] \in {"-", "+"} THEN Tail(s) ELSE s
    IN  body # <<>> /\ AllIn(body, Digits)

\* int(s) for a string int() accepts
ParseInt(s) ==
    IF s[1] = "-" THEN 0 - DecimalValue(Tail(s))
    ELSE IF s[1] = "+" THEN DecimalValue(Tail(s))
    ELSE DecimalValue(s)

\* str.replace('/', '\\')
ReplaceSlashes(s) == [i \in 1..Len(s) |-> IF s[i] = "/" THEN "\\" ELSE s[i]]

(***************************************************************************)
(* The regular expressions of the source.                                  *)
(***************************************************************************)
\* (:.*)?\s*$ : what may follow the closing parenthesis of a status change
StatusTailOk(t) ==
    \/ AllIn(t, Whitespace)
    \/ /\ t # <<>> /\ t[1] = ":"
       /\ \E j \in 1..Len(t) :
            /\ \A i \in 2..j : t[i] # "\n"
            /\ AllIn(Drop(t, j), Whitespace)

\* status_change_line = ^status change: \( (.*?) \)(:.*)?\s*$
\* group 1 is the shortest payload the rest of the pattern allows
status_change_line(line) ==
    IF ~StartsWith(line, S_status_change_open) THEN None
    ELSE LET rest == Drop(line, Len(S_status_change_open))
             ends == {k \in 0..Len(rest) :
                        /\ \A i \in 1..k : rest[i] # "\n"
                        /\ StartsWith(Drop(rest, k), S_status_change_close)
                        /\ StatusTailOk(Drop(rest, k + Len(S_status_change_close)))}
         IN  IF ends = {} THEN None
             ELSE Match(SubSeq(rest, 1, CHOOSE k \in ends : \A j \in ends : k <= j))

\* ^<text>$
ExactPattern(text, payload) == IF payload = text THEN Match(<<>>) ELSE None

\* ^audio volume: (-?[0-9]+)$
VolumePattern(payload) ==
    IF ~StartsWith(payload, S_audio_volume) THEN None
    ELSE LET g == Drop(payload, Len(S_audio_volume))
             digits == IF g # <<>> /\ g[1] = "-" THEN Tail(g) ELSE g
         IN  IF digits # <<>> /\ AllIn(digits, Digits) THEN Match(g) ELSE None

\* ^new input: file:///(.*?)$
NewInputPattern(payload) ==
    IF StartsWith(payload, S_new_input_file) /\ \A i \in 1..Len(payload) : payload[i] # "\n"
    THEN Match(Drop(payload, Len(S_new_input_file)))
    ELSE None

\* query_return_line_re = ^([a-zA-Z_-]+): returned ([0-9]+).*$
\* group 1 is the run of name characters the line starts with
query_return_line_re(line) ==
    LET stops == {i \in 1..Len(line) : line[i] \notin QueryNameChars}
        n == IF stops = {} THEN Len(line)
             ELSE (CHOOSE i \in stops : \A j \in stops : i <= j) - 1
        rest == Drop(line, n)
        after == Drop(rest, Len(S_returned))
    IN  IF /\ n >= 1
           /\ StartsWith(rest, S_returned)
           /\ after # <<>> /\ after[1] \in Digits
           /\ \A i \in 1..Len(after) : after[i] # "\n"
        THEN Match(SubSeq(line, 1, n))
        ELSE None

(***************************************************************************)
(* Bounds of the model.                                                    *)
(***************************************************************************)
\* the time advancer stops once the current time has reached this many seconds
MaxTime == 2

\* bytes a read that times out in the middle of a line has received
PartialLen == 50

(***************************************************************************)
(* Inputs.                                                                 *)
(***************************************************************************)
\* the lines the transport may deliver (without their terminator)
Lines ==
    {L_volume_m20, L_volume_7, L_stop_0, L_play_2, L_play_3, L_play_4, L_pause_3,
     L_pause_4, L_new_input_drive, L_new_input_posix, L_unmatched_status,
     L_ack_title, L_ack_volume, L_movie, L_zero, L_one, L_blank}

\* the four queue_query calls main() makes before it starts reading
StartupQueries ==
    << <<S_is_playing, "resp_is_playing">>,
       <<S_title, "resp_title">>,
       <<S_get_time, "resp_title">>,
       <<S_get_length, "resp_title">> >>

\* a session: the lines the player sends during it (any number of times, in
\* any order), and the queries queued by callers after start-up
Sessions ==
    { [feed |-> {L_volume_m20, L_volume_7, L_unmatched_status, L_new_input_drive,
                 L_new_input_posix, L_blank, L_movie, L_pause_3},
       script |-> <<>>],
      [feed |-> {L_stop_0, L_play_2, L_play_3, L_play_4, L_pause_3, L_pause_4, L_zero,
                 L_volume_m20},
       script |-> <<>>],
      [feed |-> {L_ack_title, L_ack_volume, L_movie, L_zero, L_one, L_play_2},
       script |-> << <<S_title, "resp_title">> >>],
      [feed |-> {L_movie, L_one, L_play_2, L_pause_3},
       script |-> << <<S_get_time, "resp_get_time">> >>] }

(***************************************************************************)
(* State.                                                                  *)
(***************************************************************************)
VARIABLES
    player,          \* Player: _volume, _video_title, _playstate, _curr_time, _total_time, _source
    state_lock,      \* Player.state_lock: "free" or the thread holding it
    query_queue,     \* QuerierThread.query_queue: entries (query, callback), oldest first
    ready_to_query,  \* QuerierThread.ready_to_query
    data_lock,       \* QuerierThread.data_lock: "free" or the thread holding it
    pc,              \* where each thread is
    buf,             \* main(): bytes of the line being assembled
    line,            \* main(): the latest stripped line
    d,               \* query_response: the entry popped from the queue
    data,            \* QuerierThread.run: the head entry it is sending
    value,           \* inc_curr_time_if_playing: the current time it read
    locked_player,   \* the Player as the time advancer found it when it took the lock
    wire,            \* transport: bytes of the current line not yet returned by a read
    feed,            \* transport: the lines the player sends in this session
    script,          \* the queue_query calls callers have yet to make
    enqueued,        \* number of queue_query calls so far (an entry's id is its ordinal)
    sent,            \* ids of the queued entries whose query was written to the transport
    called,          \* ids of the entries whose callback was invoked
    returned,        \* ids of the entries removed by query_return_line
    observation      \* what main() printed about the latest line

vars ==
    <<player, state_lock, query_queue, ready_to_query, data_lock, pc, buf, line, d, data,
      value, locked_player, wire, feed, script, enqueued, sent, called, returned,
      observation>>

playerVars == <<player, state_lock>>
queueVars == <<query_queue, ready_to_query, data_lock>>
readVars == <<buf, line, wire>>
localVars == <<d, data, value, locked_player>>
inputVars == <<feed, script>>
historyVars == <<enqueued, sent, called, returned>>

\* class PlayerState(Enum)
PlayerState == {"stop", "play", "pause", "end"}

NoEntry == [name |-> <<>>, callback |-> "", id |-> 0]

\* Player.__init__
NewPlayer ==
    [volume |-> 0, video_title |-> <<>>, playstate |-> "stop",
     curr_time |-> 0, total_time |-> 0, source |-> <<>>]

\* the state main() is in once both threads are started and nothing is queued
Init ==
    /\ player = NewPlayer
    /\ state_lock = "free"
    /\ query_queue = <<>>
    /\ ready_to_query = FALSE
    /\ data_lock = "free"
    /\ pc = [main |-> "startup", querier |-> "poll", timer |-> "sleep"]
    /\ buf = <<>>
    /\ line = <<>>
    /\ d = NoEntry
    /\ data = NoEntry
    /\ value = 0
    /\ locked_player = NewPlayer
    /\ wire = <<>>
    /\ \E s \in Sessions : feed = s.feed /\ script = s.script
    /\ enqueued = 0
    /\ sent = {}
    /\ called = {}
    /\ returned = {}
    /\ observation = "none"

\* the process lives until main() exits or dies: both other threads are daemons
Alive == pc.main \notin {"exit", "crashed"}

\* an acquire() that returns whoever holds the lock
AcquireNeverWaits(lock) == lock \in {"free", "main", "querier", "timer"}

\* Lock.acquire() returns only when no thread holds the lock
CanAcquire(lock) == lock = "free"

(***************************************************************************)
(* Player.                                                                 *)
(***************************************************************************)
\* set_volume, set_video_title, set_playstate, set_curr_time, set_total_time,
\* set_source: the store made under state_lock
SetAttr(p, attr, nv) == [p EXCEPT ![attr] = nv]

\* sc_volume with a pattern that leaves the sign out of the group
sc_volume_unsigned(mc, p) ==
    SetAttr(p, "volume", ParseInt(IF mc.group1[1] = "-" THEN Tail(mc.group1) ELSE mc.group1))

\* sc_volume
sc_volume(mc, p) == SetAttr(p, "volume", ParseInt(mc.group1))

\* sc_playing
sc_playing(mc, p) == SetAttr(p, "playstate", "play")

\* sc_paused
sc_paused(mc, p) == SetAttr(p, "playstate", "pause")

\* sc_stopped
sc_stopped(mc, p) == SetAttr(p, "playstate", "end")

\* sc_new_input
sc_new_input(mc, p) ==
    LET src == mc.group1
        drive == Len(src) >= 3 /\ src[1] \in UpperCase /\ src[2] = ":" /\ src[3] = "/"
    IN  SetAttr(p, "source", IF drive THEN ReplaceSlashes(src) ELSE src)

\* the table status_changes: (name, check, func)
status_changes ==
    << [name |-> "volume", check |-> [kind |-> "volume", text |-> <<>>], func |-> "sc_volume"],
       [name |-> "stop", check |-> [kind |-> "exact", text |-> S_stop_state_0], func |-> "sc_stopped"],
       [name |-> "play", check |-> [kind |-> "exact", text |-> S_play_state_2], func |-> "sc_playing"],
       [name |-> "play", check |-> [kind |-> "exact", text |-> S_play_state_3], func |-> "sc_playing"],
       [name |-> "play", check |-> [kind |-> "exact", text |-> S_play_state_4], func |-> "sc_playing"],
       [name |-> "pause", check |-> [kind |-> "exact", text |-> S_pause_state_3], func |-> "sc_paused"],
       [name |-> "stop", check |-> [kind |-> "exact", text |-> S_pause_state_4], func |-> "sc_stopped"],
       [name |-> "input source", check |-> [kind |-> "new_input", text |-> <<>>], func |-> "sc_playing"] >>

\* check.match(payload)
CheckMatch(check, payload) ==
    CASE check.kind = "volume" -> VolumePattern(payload)
      [] check.kind = "new_input" -> NewInputPattern(payload)
      [] OTHER -> ExactPattern(check.text, payload)

\* func(mc)
CallFunc(func, mc, p) ==
    CASE func = "sc_volume" -> sc_volume(mc, p)
      [] func = "sc_playing" -> sc_playing(mc, p)
      [] func = "sc_paused" -> sc_paused(mc, p)
      [] func = "sc_stopped" -> sc_stopped(mc, p)
      [] func = "sc_new_input" -> sc_new_input(mc, p)

\* the entries of status_changes that match the payload
MatchingRules(payload) ==
    {i \in 1..Len(status_changes) : CheckMatch(status_changes[i].check, payload).matched}

\* the for loop over status_changes stops at the first entry that matches
FirstRule(payload) ==
    CHOOSE i \in MatchingRules(payload) : \A j \in MatchingRules(payload) : i <= j

(***************************************************************************)
(* The command queue.                                                      *)
(***************************************************************************)
\* query_queue.append((query_str, callback)); the id is the call's ordinal
Entry(query_str, callback, id) == [name |-> query_str, callback |-> callback, id |-> id]

\* query_queue[0]
First(queue) == queue[1]

\* query_queue.pop() of the last entry, where pop(0) is meant
PopLast(queue) == [item |-> queue[Len(queue)], rest |-> SubSeq(queue, 1, Len(queue) - 1)]

\* query_queue.pop(0): the entry it returns and the queue it leaves
Pop0(queue) == [item |-> Head(queue), rest |-> Tail(queue)]

\* queue_query setting ready_to_query whether or not the queue was empty
queue_query_always_ready(query_str, callback) ==
    /\ CanAcquire(data_lock)
    /\ ready_to_query' = TRUE
    /\ query_queue' = Append(query_queue, Entry(query_str, callback, enqueued + 1))
    /\ enqueued' = enqueued + 1
    /\ data_lock' = "free"

\* queue_query: what it does to the queue and to ready_to_query, under data_lock
queue_query(query_str, callback) ==
    /\ CanAcquire(data_lock)
    /\ ready_to_query' = (IF Len(query_queue) = 0 THEN TRUE ELSE ready_to_query)
    /\ query_queue' = Append(query_queue, Entry(query_str, callback, enqueued + 1))
    /\ enqueued' = enqueued + 1
    /\ data_lock' = "free"

\* main(): queue_query('is_playing', ...), ('title', ...), ('get_time', ...), ('get_length', ...)
StartupQuery ==
    /\ Alive
    /\ pc.main = "startup"
    /\ LET q == StartupQueries[enqueued + 1]
       IN  queue_query(q[1], q[2])
    /\ pc' = [pc EXCEPT !.main = IF enqueued + 1 = Len(StartupQueries) THEN "read" ELSE "startup"]
    /\ UNCHANGED <<playerVars, readVars, localVars, inputVars, sent, called, returned,
                   observation>>

\* a later queue_query call by a user of the queue, from a thread of its own
CallerQuery ==
    /\ Alive
    /\ pc.main # "startup"
    /\ script # <<>>
    /\ queue_query(Head(script)[1], Head(script)[2])
    /\ script' = Tail(script)
    /\ UNCHANGED <<playerVars, readVars, localVars, feed, pc, sent, called, returned,
                   observation>>

(***************************************************************************)
(* QuerierThread.                                                          *)
(***************************************************************************)
\* run without ready_to_query = False before the send
QuerierPollKeepsReady ==
    /\ Alive
    /\ pc.querier = "poll"
    /\ CanAcquire(data_lock)
    /\ IF ready_to_query /\ Len(query_queue) > 0
       THEN /\ data' = First(query_queue)
            /\ data_lock' = "querier"
            /\ pc' = [pc EXCEPT !.querier = "send"]
            /\ UNCHANGED ready_to_query
       ELSE /\ data_lock' = "free"
            /\ UNCHANGED <<ready_to_query, data, pc>>
    /\ UNCHANGED <<playerVars, query_queue, readVars, d, value, locked_player, inputVars,
                   historyVars, observation>>

\* run: lock(); the test of ready_to_query and the queue; unlock() when there is
\* nothing to send, else ready_to_query = False and on to send() with the lock held
QuerierPoll ==
    /\ Alive
    /\ pc.querier = "poll"
    /\ CanAcquire(data_lock)
    /\ IF ready_to_query /\ Len(query_queue) > 0
       THEN /\ ready_to_query' = FALSE
            /\ data' = First(query_queue)
            /\ data_lock' = "querier"
            /\ pc' = [pc EXCEPT !.querier = "send"]
       ELSE /\ data_lock' = "free"
            /\ UNCHANGED <<ready_to_query, data, pc>>
    /\ UNCHANGED <<playerVars, query_queue, readVars, d, value, locked_player, inputVars,
                   historyVars, observation>>

\* send(data[0]) writes the head's query; then unlock() and the sleep
QuerierSend ==
    /\ Alive
    /\ pc.querier = "send"
    /\ sent' = sent \cup {data.id}
    /\ data' = NoEntry
    /\ data_lock' = "free"
    /\ pc' = [pc EXCEPT !.querier = "poll"]
    /\ UNCHANGED <<playerVars, query_queue, ready_to_query, readVars, d, value,
                   locked_player, inputVars, enqueued, called, returned, observation>>

\* t.write raises (the connection is gone): run() ends without unlock()
QuerierSendFails ==
    /\ Alive
    /\ pc.querier = "send"
    /\ pc' = [pc EXCEPT !.querier = "dead"]
    /\ UNCHANGED <<playerVars, queueVars, readVars, localVars, inputVars, historyVars,
                   observation>>

(***************************************************************************)
(* TimeAdvancerThread.                                                     *)
(***************************************************************************)
\* inc_curr_time_if_playing: state_lock.acquire()
TimerLock ==
    /\ Alive
    /\ pc.timer = "sleep"
    /\ player.curr_time < MaxTime
    /\ CanAcquire(state_lock)
    /\ state_lock' = "timer"
    /\ locked_player' = player
    /\ pc' = [pc EXCEPT !.timer = "test"]
    /\ UNCHANGED <<player, queueVars, readVars, d, data, value, inputVars, historyVars,
                   observation>>

\* if self._playstate == PlayerState.play: the read of self._curr_time
TimerTest ==
    /\ Alive
    /\ pc.timer = "test"
    /\ IF player.playstate = "play"
       THEN /\ value' = player.curr_time
            /\ pc' = [pc EXCEPT !.timer = "store"]
       ELSE /\ pc' = [pc EXCEPT !.timer = "unlock"]
            /\ UNCHANGED value
    /\ UNCHANGED <<playerVars, queueVars, readVars, d, data, locked_player, inputVars,
                   historyVars, observation>>

\* self._curr_time = ... + 1
TimerStore ==
    /\ Alive
    /\ pc.timer = "store"
    /\ player' = SetAttr(player, "curr_time", value + 1)
    /\ value' = 0
    /\ pc' = [pc EXCEPT !.timer = "unlock"]
    /\ UNCHANGED <<state_lock, queueVars, readVars, d, data, locked_player, inputVars,
                   historyVars, observation>>

\* state_lock.release()
TimerUnlock ==
    /\ Alive
    /\ pc.timer = "unlock"
    /\ state_lock' = "free"
    /\ locked_player' = NewPlayer
    /\ pc' = [pc EXCEPT !.timer = "print"]
    /\ UNCHANGED <<player, queueVars, readVars, d, data, value, inputVars, historyVars,
                   observation>>

\* print(self.player.curr_time): get_curr_time takes and releases state_lock
TimerPrint ==
    /\ Alive
    /\ pc.timer = "print"
    /\ CanAcquire(state_lock)
    /\ state_lock' = "free"
    /\ pc' = [pc EXCEPT !.timer = "sleep"]
    /\ UNCHANGED <<player, queueVars, readVars, localVars, inputVars, historyVars,
                   observation>>

(***************************************************************************)
(* main(): the read loop.                                                  *)
(***************************************************************************)
\* the branches tried in the wrong order: a query response first
ClassifyResponseFirst(bytes) ==
    LET l == Strip(bytes)
    IN  /\ line' = l
        /\ observation' = "none"
        /\ IF l = <<>>
           THEN /\ buf' = <<>>
                /\ pc' = [pc EXCEPT !.main = "read"]
           ELSE /\ buf' = bytes
                /\ pc' = [pc EXCEPT !.main =
                             IF Len(query_queue) > 0 THEN "query_response"
                             ELSE IF status_change_line(l).matched THEN "status_change"
                             ELSE IF query_return_line_re(l).matched THEN "query_return_line"
                             ELSE "query_response"]

\* the lines after t.read_until returned a complete line: strip it and pick the
\* branch of the if / elif / else
Classify(bytes) ==
    LET l == Strip(bytes)
    IN  /\ line' = l
        /\ observation' = "none"
        /\ IF l = <<>>
           THEN /\ buf' = <<>>
                /\ pc' = [pc EXCEPT !.main = "read"]
           ELSE /\ buf' = bytes
                /\ pc' = [pc EXCEPT !.main =
                             IF status_change_line(l).matched THEN "status_change"
                             ELSE IF query_return_line_re(l).matched THEN "query_return_line"
                             ELSE "query_response"]

\* t.read_until(b'\n', 60) returns a whole line
ReadLine ==
    /\ Alive
    /\ pc.main = "read"
    /\ wire = <<>>
    /\ \E l \in feed : Classify(buf \o l \o <<"\n">>)
    /\ UNCHANGED <<playerVars, queueVars, localVars, wire, inputVars, historyVars>>

\* the read times out after the first bytes of a line: buf keeps them, continue
ReadPartial ==
    /\ Alive
    /\ pc.main = "read"
    /\ wire = <<>>
    /\ \E l \in feed :
         /\ Len(l) > PartialLen
         /\ buf' = buf \o SubSeq(l, 1, PartialLen)
         /\ wire' = Drop(l, PartialLen) \o <<"\n">>
    /\ UNCHANGED <<playerVars, queueVars, localVars, pc, line, inputVars, historyVars,
                   observation>>

\* the rest of a line arrives
ReadRest ==
    /\ Alive
    /\ pc.main = "read"
    /\ wire # <<>>
    /\ Classify(buf \o wire)
    /\ wire' = <<>>
    /\ UNCHANGED <<playerVars, queueVars, localVars, inputVars, historyVars>>

\* the read times out with no bytes at all: buf[-1] of the empty buf raises
\* IndexError, which no except clause of the loop catches
ReadNothing ==
    /\ Alive
    /\ pc.main = "read"
    /\ pc' = [pc EXCEPT !.main = IF buf = <<>> THEN "crashed" ELSE "read"]
    /\ UNCHANGED <<playerVars, queueVars, localVars, readVars, inputVars, historyVars,
                   observation>>

\* except ConnectionResetError / except EOFError: sys.exit(0)
ReadClosed ==
    /\ Alive
    /\ pc.main = "read"
    /\ pc' = [pc EXCEPT !.main = "exit"]
    /\ UNCHANGED <<playerVars, queueVars, localVars, readVars, inputVars, historyVars,
                   observation>>

\* the status change branch: the first matching entry's func runs, and its
\* setter stores under state_lock; no entry matching is only printed
StatusChange ==
    /\ Alive
    /\ pc.main = "status_change"
    /\ LET payload == status_change_line(line).group1
       IN  IF MatchingRules(payload) = {}
           THEN /\ observation' = "Unmatched status change"
                /\ UNCHANGED playerVars
           ELSE LET rule == status_changes[FirstRule(payload)]
                IN  /\ CanAcquire(state_lock)
                    /\ player' = CallFunc(rule.func, CheckMatch(rule.check, payload), player)
                    /\ state_lock' = "free"
                    /\ UNCHANGED observation
    /\ buf' = <<>>
    /\ pc' = [pc EXCEPT !.main = "read"]
    /\ UNCHANGED <<queueVars, localVars, line, wire, inputVars, historyVars>>

\* the removal without ready_to_query = True
RemoveHeadKeepsFlag ==
    LET popped == Pop0(query_queue)
    IN  /\ query_queue' = popped.rest
        /\ returned' = returned \cup {popped.item.id}
        /\ sent' = sent \ {popped.item.id}
        /\ observation' = "QRL removing"
        /\ UNCHANGED ready_to_query

\* query_return_line: query_queue.pop(0) and ready_to_query = True
RemoveHead ==
    LET popped == Pop0(query_queue)
    IN  /\ query_queue' = popped.rest
        /\ ready_to_query' = TRUE
        /\ returned' = returned \cup {popped.item.id}
        /\ sent' = sent \ {popped.item.id}
        /\ observation' = "QRL removing"

\* query_return_line returning True only when it removed the head
ReturnsRemoved(removed) == removed

\* query_return_line's result for a line query_return_line_re matches: True,
\* whether or not the head was removed
Returns(removed) == TRUE

\* query_return_line(line) for a line query_return_line_re matches: the head is
\* removed when it bears the line's name; on True the elif branch is taken and
\* the line is done with, on False the line would go on to query_response
query_return_line ==
    /\ Alive
    /\ pc.main = "query_return_line"
    /\ CanAcquire(data_lock)
    /\ LET query_name == query_return_line_re(line).group1
           removed == Len(query_queue) > 0 /\ First(query_queue).name = query_name
       IN  /\ IF removed
              THEN RemoveHead
              ELSE UNCHANGED <<query_queue, ready_to_query, returned, sent, observation>>
           /\ IF Returns(removed)
              THEN /\ buf' = <<>>
                   /\ pc' = [pc EXCEPT !.main = "read"]
              ELSE /\ buf' = buf
                   /\ pc' = [pc EXCEPT !.main = "query_response"]
    /\ data_lock' = "free"
    /\ UNCHANGED <<playerVars, localVars, line, wire, inputVars, enqueued, called>>

\* the empty-queue branch without the loop's except IndexError
NoQueryUncaught ==
    /\ data_lock' = "free"
    /\ pc' = [pc EXCEPT !.main = "crashed"]
    /\ UNCHANGED <<query_queue, ready_to_query, d, sent, called, buf, observation>>

\* query_response on an empty queue: unlock() and raise IndexError, which the
\* loop catches and prints as an unmatched line
NoQuery ==
    /\ data_lock' = "free"
    /\ observation' = "Unmatched line"
    /\ buf' = <<>>
    /\ pc' = [pc EXCEPT !.main = "read"]
    /\ UNCHANGED <<query_queue, ready_to_query, d, sent, called>>

\* query_response(line): the head is popped and its callback is called with
\* data_lock still held; on an empty queue, NoQuery
query_response ==
    /\ Alive
    /\ pc.main = "query_response"
    /\ CanAcquire(data_lock)
    /\ IF Len(query_queue) = 0
       THEN NoQuery
       ELSE LET popped == Pop0(query_queue)
            IN  /\ data_lock' = "main"
                /\ d' = popped.item
                /\ query_queue' = popped.rest
                /\ ready_to_query' = TRUE
                /\ sent' = sent \ {popped.item.id}
                /\ called' = called \cup {popped.item.id}
                /\ pc' = [pc EXCEPT !.main = "callback"]
                /\ UNCHANGED <<buf, observation>>
    /\ UNCHANGED <<playerVars, data, value, locked_player, line, wire, inputVars, enqueued,
                   returned>>

\* int(line) of resp_get_time and resp_get_length
NeedsInt(callback) == callback \in {"resp_get_time", "resp_get_length"}

\* the callbacks called with the entry's query instead of the line
RespondToQuery(callback, l, p) ==
    CASE callback = "resp_is_playing" -> SetAttr(p, "playstate", "play")
      [] callback = "resp_title" -> SetAttr(p, "video_title", d.name)
      [] callback = "resp_get_time" -> SetAttr(p, "curr_time", 0)
      [] callback = "resp_get_length" -> SetAttr(p, "total_time", 0)

\* resp_is_playing, resp_title, resp_get_time, resp_get_length: the Player after
\* the callback's setter
Respond(callback, l, p) ==
    CASE callback = "resp_is_playing" ->
             SetAttr(p, "playstate", IF l = <<"0">> THEN "end" ELSE "play")
      [] callback = "resp_title" -> SetAttr(p, "video_title", l)
      [] callback = "resp_get_time" -> SetAttr(p, "curr_time", ParseInt(l))
      [] callback = "resp_get_length" -> SetAttr(p, "total_time", ParseInt(l))

\* d[1](line) returns: its setter stored under state_lock; then qthread.unlock()
CallbackReturns ==
    /\ Alive
    /\ pc.main = "callback"
    /\ ~(NeedsInt(d.callback) /\ ~IsIntLiteral(line))
    /\ CanAcquire(state_lock)
    /\ player' = Respond(d.callback, line, player)
    /\ state_lock' = "free"
    /\ data_lock' = "free"
    /\ d' = NoEntry
    /\ buf' = <<>>
    /\ pc' = [pc EXCEPT !.main = "read"]
    /\ UNCHANGED <<query_queue, ready_to_query, data, value, locked_player, line, wire,
                   inputVars, historyVars, observation>>

\* d[1](line) raises ValueError from int(line): neither query_response nor the
\* loop catches it, and main() dies with data_lock held
CallbackRaises ==
    /\ Alive
    /\ pc.main = "callback"
    /\ NeedsInt(d.callback) /\ ~IsIntLiteral(line)
    /\ pc' = [pc EXCEPT !.main = "crashed"]
    /\ UNCHANGED <<playerVars, queueVars, localVars, readVars, inputVars, historyVars,
                   observation>>

Next ==
    \/ StartupQuery
    \/ CallerQuery
    \/ QuerierPoll
    \/ QuerierSend
    \/ QuerierSendFails
    \/ TimerLock
    \/ TimerTest
    \/ TimerStore
    \/ TimerUnlock
    \/ TimerPrint
    \/ ReadLine
    \/ ReadPartial
    \/ ReadRest
    \/ ReadNothing
    \/ ReadClosed
    \/ StatusChange
    \/ query_return_line
    \/ query_response
    \/ CallbackReturns
    \/ CallbackRaises

Spec == Init /\ [][Next]_vars

(***************************************************************************)
(* Fairness: every thread that can take a step takes one, and a thread     *)
(* that waits for a lock gets it when it is free again and again (the      *)
(* other threads sleep between their operations); a player that            *)
(* answers completes the lines it began and sends a response line again    *)
(* and again while main() reads; and                                       *)
(* once a write to the transport has failed the connection is gone, so a   *)
(* read ends the session.                                                  *)
(***************************************************************************)
\* t.read_until returns a line that is a query response
ReadResponse ==
    /\ ReadLine
    /\ ~status_change_line(line').matched
    /\ ~query_return_line_re(line').matched
    /\ line' # <<>>

\* t.read_until raises once the querier's write has failed
ReadAfterWriteFailed == ReadClosed /\ pc.querier = "dead"

FairSpec ==
    /\ Spec
    /\ SF_vars(QuerierPoll \/ QuerierSend)
    /\ WF_vars(TimerTest \/ TimerStore \/ TimerUnlock \/ TimerPrint)
    /\ SF_vars(StartupQuery \/ StatusChange \/ query_return_line \/ query_response
                 \/ CallbackReturns \/ CallbackRaises)
    /\ WF_vars(ReadRest)
    /\ SF_vars(ReadResponse)
    /\ SF_vars(ReadAfterWriteFailed)


(***************************************************************************)
(* Properties.                                                             *)
(***************************************************************************)
\* the step is one of the main thread
MainStep == pc'.main # pc.main

\* positions of the queued entries whose query was written to the transport
InFlight == {i \in 1..Len(query_queue) : query_queue[i].id \in sent}

\* C1: at most one queued command has been written to the transport and not
\* yet removed, and it is the head of the queue; while ready_to_query is set no
\* queued command has been written.
C1_SingleInFlight ==
    /\ InFlight \subseteq {1}
    /\ ready_to_query => InFlight = {}

\* C1 witness: the head is in flight with a caller's query queued behind it
C1_Witness ==
    /\ Len(query_queue) >= 2
    /\ InFlight = {1}
    /\ ~ready_to_query
    /\ query_queue[Len(query_queue)].id > Len(StartupQueries)

\* C2: the callbacks invoked by query responses are invoked in the order of
\* the queue_query calls, each at most once, and each response goes to the
\* callback of the oldest entry queued at that moment.
C2_ResponsesInOrder ==
    [][(pc.main = "query_response" /\ pc'.main = "callback") =>
         /\ \A i \in 1..Len(query_queue) : d'.id <= query_queue[i].id
         /\ \E i \in 1..Len(query_queue) : d' = query_queue[i]
         /\ \A i \in 1..Len(query_queue') : d'.id < query_queue'[i].id
         /\ d'.id \notin called
         /\ \A id \in called : id < d'.id
         /\ called' = called \cup {d'.id}
         /\ line' = line]_vars

\* C2 witness: the callbacks of the first three queries were invoked, and the
\* fourth entry is being answered
C2_Witness ==
    /\ called = {1, 2, 3, 4}
    /\ pc.main = "callback"
    /\ d.id = 4

\* C3: query_response on a non-empty queue removes exactly the head, sets
\* ready_to_query and calls the removed entry's callback once, with the line;
\* a lone ("title", resp_title) entry answered by "Movie.mp4" leaves the title
\* "Movie.mp4", the queue empty and ready_to_query set.
C3_MatchResponse ==
    [][/\ (pc.main = "query_response" /\ MainStep /\ Len(query_queue) > 0) =>
            /\ pc'.main = "callback"
            /\ d' = Head(query_queue)
            /\ query_queue' = Tail(query_queue)
            /\ ready_to_query'
            /\ d'.id \notin called /\ called' = called \cup {d'.id}
            /\ line' = line
       /\ (pc.main = "callback" /\ pc'.main = "read") =>
            /\ d.callback = "resp_title" => player' = [player EXCEPT !.video_title = line]
            /\ d.callback = "resp_is_playing" =>
                 player' = [player EXCEPT !.playstate = IF line = L_zero THEN "end" ELSE "play"]
            /\ UNCHANGED <<query_queue, ready_to_query, called>>
            /\ (d.name = S_title /\ d.callback = "resp_title" /\ line = L_movie
                  /\ query_queue = <<>>) =>
                 /\ player'.video_title = L_movie
                 /\ query_queue' = <<>>
                 /\ ready_to_query']_vars

\* C3 witness: the caller's title query, alone in the queue, was answered by
\* "Movie.mp4"
C3_Witness ==
    /\ pc.main = "read"
    /\ line = L_movie
    /\ called = {1, 2, 3, 4, 5}
    /\ player.video_title = L_movie
    /\ query_queue = <<>>
    /\ ready_to_query

\* C4: a query response on an empty queue calls no callback, is printed as an
\* unmatched line and leaves the queue, ready_to_query and the Player as they
\* were; a status change no entry of status_changes matches is printed as an
\* unmatched status change and changes nothing either; main() goes on reading.
C4_MismatchesChangeNothing ==
    [][/\ (pc.main = "query_response" /\ MainStep /\ Len(query_queue) = 0) =>
            /\ pc'.main = "read"
            /\ observation' = "Unmatched line"
            /\ UNCHANGED <<query_queue, ready_to_query, player, called>>
       /\ (pc.main = "status_change" /\ MainStep /\ line = L_unmatched_status) =>
            /\ pc'.main = "read"
            /\ observation' = "Unmatched status change"
            /\ UNCHANGED <<query_queue, ready_to_query, player, called>>]_vars

\* C4 witness: a response arrived with nothing queued; ready_to_query is still
\* as the last removal left it
C4_Witness ==
    /\ pc.main = "read"
    /\ observation = "Unmatched line"
    /\ line = L_movie
    /\ query_queue = <<>>
    /\ called = {1, 2, 3, 4}

\* the lines of the feeds by the pattern they match
StatusLines ==
    {L_volume_m20, L_volume_7, L_stop_0, L_play_2, L_play_3, L_play_4, L_pause_3,
     L_pause_4, L_new_input_drive, L_new_input_posix, L_unmatched_status}

ReturnLines == {L_ack_title, L_ack_volume}

ResponseLines == {L_movie, L_zero, L_one}

\* C5: a line takes exactly one of the three branches, tried in the order
\* status change, query return, query response: a status change line reaches
\* neither query_return_line nor query_response, so it removes no entry, leaves
\* ready_to_query alone and calls no callback; query_response gets only the
\* lines that matched neither pattern.
C5_ThreeBranches ==
    /\ [](/\ pc.main = "status_change" => line \in StatusLines
          /\ pc.main = "query_return_line" => line \in ReturnLines
          /\ pc.main \in {"query_response", "callback"} => line \in ResponseLines)
    /\ [][(pc.main = "status_change" /\ MainStep) =>
            /\ pc'.main = "read"
            /\ UNCHANGED <<query_queue, ready_to_query, called, returned, sent>>]_vars

\* C5 witness: a status change was handled with the head in flight, and the
\* four start-up queries are all still queued
C5_Witness ==
    /\ pc.main = "read"
    /\ line = L_volume_m20
    /\ player.volume = 0 - 20
    /\ InFlight = {1}
    /\ ~ready_to_query
    /\ Len(query_queue) = Len(StartupQueries)

\* C6: a query return line naming the head removes the head without calling
\* its callback, then or later, sets ready_to_query, leaves the other entries
\* and the Player as they were, and is not passed on to query_response.
C6_MatchAck ==
    /\ [](returned \cap called = {})
    /\ [][(/\ pc.main = "query_return_line" /\ MainStep
           /\ Len(query_queue) > 0
           /\ line = L_ack_title /\ Head(query_queue).name = S_title) =>
             /\ query_queue' = Tail(query_queue)
             /\ ready_to_query'
             /\ returned' = returned \cup {Head(query_queue).id}
             /\ UNCHANGED <<player, called>>
             /\ pc'.main = "read"]_vars

\* C6 witness: the start-up title query was removed by "title: returned 0 ..."
\* while it was in flight, and the two entries behind it are left
C6_Witness ==
    /\ pc.main = "read"
    /\ line = L_ack_title
    /\ returned = {2}
    /\ called = {1}
    /\ Len(query_queue) = 2
    /\ query_queue[1].name = S_get_time
    /\ ready_to_query

\* C7: a status change "audio volume: <n>" sets the volume to n, negative
\* values included, and leaves every other attribute of the Player, the queue
\* and ready_to_query as they were.
C7_Volume ==
    [][(pc.main = "status_change" /\ MainStep /\ line \in {L_volume_m20, L_volume_7}) =>
         /\ player' = [player EXCEPT !.volume = IF line = L_volume_m20 THEN 0 - 20 ELSE 7]
         /\ UNCHANGED <<query_queue, ready_to_query>>]_vars

\* C7 witness: volume -20 was stored in a Player whose title and play state are
\* not the initial ones
C7_Witness ==
    /\ pc.main = "read"
    /\ line = L_volume_m20
    /\ player.volume = 0 - 20
    /\ player.video_title = L_movie
    /\ player.playstate = "pause"

\* C8: after a status change the play state is the one the table gives:
\* "play state: 2", "play state: 3", "play state: 4" give play, "pause state: 3"
\* gives pause, "stop state: 0" and "pause state: 4" give stop.
C8_RuleTable ==
    pc.main = "read" =>
      /\ line \in {L_play_2, L_play_3, L_play_4} => player.playstate = "play"
      /\ line = L_pause_3 => player.playstate = "pause"
      /\ line \in {L_stop_0, L_pause_4} => player.playstate = "stop"

\* C9: after a status change "new input: file:///<path>" the source is <path>,
\* with backslashes for slashes when <path> starts with a drive letter, and the
\* play state is play.
C9_NewInput ==
    pc.main = "read" =>
      /\ line = L_new_input_drive =>
           player.source = V_drive_source /\ player.playstate = "play"
      /\ line = L_new_input_posix =>
           player.source = V_posix_path /\ player.playstate = "play"

\* C10: between taking and releasing state_lock, inc_curr_time_if_playing sees
\* the Player unchanged by any other thread, and when it releases the lock the
\* current time is one more than it was if the play state it found was play,
\* and the Player is as it was otherwise; no other attribute is changed.
C10_TickAtomic ==
    /\ pc.timer \in {"test", "store"} => player = locked_player
    /\ pc.timer = "unlock" =>
         player = IF locked_player.playstate = "play"
                  THEN [locked_player EXCEPT !.curr_time = @ + 1]
                  ELSE locked_player

\* C10 witness: a tick has added a second to a current time set by a query
\* response, while the main thread waits with a play state to store
C10_Witness ==
    /\ pc.timer = "unlock"
    /\ locked_player.playstate = "play"
    /\ locked_player.curr_time = 1
    /\ player.curr_time = 2
    /\ pc.main = "status_change"
    /\ line = L_pause_3

\* C11: no thread holds a lock while it is in a transport write or a transport
\* read: the querier has released data_lock before send() writes the head's
\* query, and main() holds neither lock while it waits in read_until.
C11_NoLockAcrossIO ==
    /\ pc.querier = "send" => (data_lock # "querier" /\ state_lock # "querier")
    /\ pc.main = "read" => (data_lock # "main" /\ state_lock # "main")

\* C12: a read that times out without a line terminator, with some bytes of a
\* line or with no bytes and an empty buf, makes main() read again: no line is
\* classified, the Player and the queue are as they were, the bytes received so
\* far are kept, and main() neither exits nor dies.
C12_TimeoutRetries ==
    [][(/\ pc.main = "read"
        /\ \/ wire = <<>> /\ wire' # <<>>
           \/ pc'.main = "crashed") =>
         /\ pc'.main = "read"
         /\ UNCHANGED <<player, query_queue, ready_to_query, line, called, returned,
                        observation>>
         /\ Len(buf') >= Len(buf)
         /\ SubSeq(buf', 1, Len(buf)) = buf]_vars

\* C13: a connection reset or an end of stream on a read ends the session with
\* exit status 0 whatever the queue and buf hold; after it no line is
\* classified and no query is written; and nothing else ends a session that
\* has started.
C13_OnlyCloseEnds ==
    [][/\ pc'.main = "exit" => pc.main \in {"read", "exit"}
       /\ pc.main = "exit" => UNCHANGED <<line, sent, called, returned, player, query_queue>>
       /\ pc'.main # "crashed"]_vars

\* C14: when resp_get_time or resp_get_length is called with a line that is not
\* an integer, the invalid value is reported with the query's name, the
\* attribute keeps its value, data_lock is free afterwards and main() goes on
\* to read the next line.
C14_MalformedValue ==
    [][(/\ pc.main = "callback" /\ MainStep
        /\ NeedsInt(d.callback) /\ ~IsIntLiteral(line)) =>
         /\ pc'.main = "read"
         /\ observation' = "Invalid value for query"
         /\ player' = player
         /\ data_lock' = "free"]_vars

\* the start-up queries, each with the callback of its own attribute
OwnHandlers ==
    << <<S_is_playing, "resp_is_playing">>,
       <<S_title, "resp_title">>,
       <<S_get_time, "resp_get_time">>,
       <<S_get_length, "resp_get_length">> >>

\* C15: when main() starts reading, the queue holds is_playing, title,
\* get_time and get_length in that order, each with the callback of its own
\* attribute; the responses to them set the play state (end for "0", play
\* otherwise), the title, the current time and the total time.
C15_StartupPopulates ==
    /\ []((pc.main = "read" /\ enqueued = Len(StartupQueries) /\ called = {}
             /\ returned = {}) =>
            /\ Len(query_queue) = Len(OwnHandlers)
            /\ \A i \in 1..Len(OwnHandlers) :
                 /\ query_queue[i].name = OwnHandlers[i][1]
                 /\ query_queue[i].callback = OwnHandlers[i][2])
    /\ [][(pc.main = "callback" /\ pc'.main = "read") =>
            /\ d.id = 1 => player'.playstate = (IF line = L_zero THEN "end" ELSE "play")
            /\ d.id = 2 => player'.video_title = line
            /\ (d.id = 3 /\ IsIntLiteral(line)) => player'.curr_time = ParseInt(line)
            /\ (d.id = 4 /\ IsIntLiteral(line)) => player'.total_time = ParseInt(line)]_vars

\* the step is query_return_line on a line that does not name the head, or on
\* an empty queue
AckOfOther ==
    /\ pc.main = "query_return_line" /\ MainStep
    /\ ~(Len(query_queue) > 0
           /\ Head(query_queue).name = query_return_line_re(line).group1)

\* C16 as stated: a query return line that names another query than the head,
\* or arrives on an empty queue, leaves the queue and ready_to_query as they
\* were and is handed on to query_response.
C16_AckOfOtherFallsThrough ==
    [][AckOfOther =>
         /\ pc'.main = "query_response"
         /\ UNCHANGED <<query_queue, ready_to_query>>]_vars

\* C16 amended: a query return line that names another query than the head, or
\* arrives on an empty queue, leaves the queue, ready_to_query and the Player
\* as they were, calls no callback, and is done with: it never reaches
\* query_response.
C16_AckOfOtherDropped ==
    [][AckOfOther =>
         /\ pc'.main = "read"
         /\ line' = line
         /\ UNCHANGED <<query_queue, ready_to_query, player, called, returned, sent>>]_vars

\* C16 witness: "volume: returned 0 (no error)" arrived while the caller's
\* title query was the head and in flight, and left it there
C16_Witness ==
    /\ pc.main = "read"
    /\ line = L_ack_volume
    /\ Len(query_queue) = 1
    /\ query_queue[1].name = S_title
    /\ InFlight = {1}
    /\ ~ready_to_query

\* the step is the querier's send() of the head's query
Writes == pc.querier = "send" /\ pc'.querier = "poll"

\* C17: queries are written to the transport only by the querier's send(), only
\* while they are the head of the queue, each at most once and in the order of
\* the queue_query calls; while a written head is not removed no other query
\* is written, and a queue_query call on a non-empty queue leaves
\* ready_to_query as it is.
C17_WritesInOrder ==
    [][/\ (sent' \ sent # {}) => Writes
       /\ Writes =>
            /\ Len(query_queue) > 0
            /\ data = Head(query_queue)
            /\ sent' = sent \cup {data.id}
            /\ data.id \notin sent \cup called \cup returned
            /\ InFlight = {}
            /\ \A id \in 1..enqueued : id < data.id => id \in called \cup returned
            /\ UNCHANGED <<query_queue, ready_to_query>>
       /\ (/\ InFlight = {1}
           /\ Len(query_queue') > 0
           /\ Head(query_queue') = Head(query_queue)) =>
            /\ sent' = sent
            /\ ready_to_query' = ready_to_query
       /\ (enqueued' # enqueued /\ Len(query_queue) > 0) =>
            ready_to_query' = ready_to_query]_vars

\* C17 witness: the second start-up query was written once the first had been
\* answered, and a caller's query was appended behind it without setting
\* ready_to_query
C17_Witness ==
    /\ pc.querier = "poll"
    /\ called = {1}
    /\ returned = {}
    /\ sent = {2}
    /\ Len(query_queue) = 4
    /\ query_queue[4].id = 5
    /\ ~ready_to_query

C20_LocksReleased ==
    /\ (state_lock = "timer" => data_lock # "timer")
    /\ (state_lock = "main" => data_lock \in {"free", "main"})
    /\ (pc.querier # "send" => data_lock # "querier")
    /\ (pc.main # "callback" => data_lock # "main")
    /\ (pc.timer \in {"sleep", "print"} => state_lock # "timer")
    /\ state_lock \notin {"main", "querier"}

\* the ids queue_query gives out in a session
QueryIds == 1..(Len(StartupQueries) + 1)

\* the entry with this id has left the queue, or the process has ended
Gone(id) == id \in called \cup returned \/ ~Alive

\* C18: with the threads scheduled fairly, whenever ready_to_query is set and
\* the queue is not empty the head is eventually written or removed, unless
\* the session ends; and when the player goes on answering, every queued query
\* is eventually removed from the queue, unless the session ends.
C18_DispatcherLive ==
    /\ \A id \in QueryIds :
         (ready_to_query /\ Len(query_queue) > 0 /\ Head(query_queue).id = id)
           ~> (id \in sent \/ Gone(id))
    /\ \A id \in QueryIds : (enqueued >= id) ~> Gone(id)
=============================================================================
